---------------------------- MODULE Spec2Model ----------------------------
(***************************************************************************)
(* The level-triggered reconciliation framework of kcp:                    *)
(*   - the generic typed controller (pkg/controller): Enqueue, the worker   *)
(*     loop processNextItem and the retry policy handleError, driving a     *)
(*     rate-limited, deduplicating work queue;                              *)
(*   - the APIBinding controller's cascading enqueuers                      *)
(*     (CRD -> APIResourceSchema -> APIExport -> APIBinding);               *)
(*   - the ClusterRole replication controller's worker loop                 *)
(*     (processNextWorkItem, process) and its shutdown.                     *)
(* The work queue is client-go's workqueue; its operations are modelled     *)
(* from the contract in section 4.1 of the specification.                   *)
(***************************************************************************)
EXTENDS Integers, Sequences, FiniteSets, TLC

(* ------------------------------ bounds -------------------------------- *)
NumWorkers == 2
MaxEvents == 3
MaxObj == 2

(* The rate limiter in ticks: base delay and cap of the per-key backoff,   *)
(* refill rate (tokens per tick) and burst of the shared token bucket,     *)
(* and how far time and failure counts are followed.                       *)
BaseDelay == 1
MaxDelay == 4
BucketQps == 1
BucketBurst == 1
MaxClock == 3
MaxFailures == 3
MaxRetries == 6

Workers == 1..NumWorkers
Objs == 1..MaxObj

(* Queue keys of the APIBindings (cluster-aware key "<cluster>|<name>").   *)
Keys == {"root:org|b1", "root:org|b2"}

(* The APIBinding whose own informer notifications Spec explores.          *)
WatchedKeys == {"root:org|b1"}

(* A key that cannot be split back into an identity (too many segments).   *)
MalformedKeys == {"root:org|ns/a/b"}

AllKeys == Keys \cup MalformedKeys

(* wkey of a worker that holds no key. *)
NoKey == ""

(* The zero value of the object type O (a nil pointer). *)
Nil == 0

(* Values of Options.NumRequeues a controller is built with: left at zero  *)
(* (as the APIBinding controller does) or set (the specification's example *)
(* configures 2).                                                          *)
NumRequeuesOptions == {0, 2}

VARIABLES
    options,      \* Options handed to New: [NumRequeues, ResyncPeriod]
    faults,       \* the collaborator calls that can return an error in this run
    numRequeues,  \* controller.numRequeues
    queue,        \* controller.queue: [queue, dirty, processing, waiting, failures]
    indexer,      \* controller.indexer: key -> object (Nil when absent)
    pc,           \* where each worker stands in processNextItem
    wkey,         \* processNextItem's k
    prev,         \* processNextItem's prev
    cur,          \* processNextItem's cur
    err,          \* processNextItem's err
    log,          \* calls made by the current pass of each worker, in order
    nEvents,      \* informer notifications delivered so far
    owed,         \* per key: Enqueue calls since the key was last dequeued (0, 1, 2+)
    enqDuring,    \* per key: Enqueue calls while a worker held the key (0, 1, 2+)
    hist,         \* per key: [enq, recFail, arl, reports, clean, lookupErr]
    dropped,      \* per key: dropped by handleError (no store lookup of the
                  \* key ever failed), with no enqueue event outstanding or since
    exportRef,          \* APIBinding key -> key of the APIExport it references
    localExports,       \* APIExports held by apiExportsIndexer
    remoteExports,      \* APIExports held by temporaryRemoteShardApiExportsIndexer
    deletedCRDTracker,  \* reconciler.deletedCRDTracker: names of deleted CRDs
    expectExport,       \* per binding: notifications of its export since its
                        \* key was last dequeued (0, 1, 2+)
    expectSchema,       \* bindings whose export lists a schema notified since
                        \* their key was last dequeued
    curRef,          \* per worker: the object cur points to ("nil", a "copy",
                     \* or the very object "prev" points to)
    ctl,             \* which controller runs: "generic" or "clusterrole"
    ctx,             \* the context handed to Start: "running" or "cancelled"
    shuttingDown,    \* queue.ShutDown() was called
    gotAfterCancel,  \* per worker: its key was dequeued after the cancellation
    requeue,         \* per worker: process's requeue result
    resyncPeriod,    \* controller.resyncPeriod (0 when Options leave it unset)
    missed,          \* per key: the store value of a change whose event was
                     \* lost (Nil when none)
    crdPending,      \* the CRD DeleteFunc call in progress: [crd, step], or
                     \* NoCall
    note,            \* the last CRD / ClusterRoleBinding notification traced:
                     \* its object and the queue, tracker and store before
                     \* and after its handler ran, or NoCall
    trig,            \* per key: names of deleted CRDs whose DeleteFunc enqueued
                     \* the key since it was last dequeued
    startTrig,       \* per worker: trig of its key when it was dequeued
    clock,           \* rate limiter: the time, in ticks
    bucket,          \* rate limiter: the token bucket [tokens, last]
    lastDelay,       \* per key: delay of its latest AddRateLimited since Forget
    prevDelay        \* per key: delay of the AddRateLimited before that one

ctlVars == <<options, faults, numRequeues, queue, indexer, pc, wkey, prev, cur, err, log,
             nEvents, owed, enqDuring, hist, dropped>>

bindVars == <<exportRef, localExports, remoteExports, deletedCRDTracker,
              expectExport, expectSchema>>

lifeVars == <<ctl, ctx, shuttingDown>>

resyncVars == <<resyncPeriod, missed>>

rlVars == <<clock, bucket, lastDelay, prevDelay>>

(* What the informer handlers and the retry policy leave alone.            *)
extVars == <<lifeVars, resyncVars, rlVars, curRef, gotAfterCancel, requeue,
             crdPending, note, trig, startTrig>>

vars == <<ctlVars, bindVars, extVars>>

NoCall == [step |-> 0]

(* ------------------------- helper operators --------------------------- *)
Count(s, k) == Cardinality({i \in DOMAIN s : s[i] = k})

InFlight(k) == \E w \in Workers : pc[w] # "idle" /\ wkey[w] = k

Call(op, p, c, e) == [op |-> op, prev |-> p, cur |-> c, err |-> e]

(* ------------------- the work queue (client-go) ----------------------- *)
(* add(key): no-op when already dirty; deferred while the key is being     *)
(* processed; otherwise appended.                                          *)
Add(q, k) ==
    IF k \in q.dirty THEN q
    ELSE IF k \in q.processing THEN [q EXCEPT !.dirty = @ \cup {k}]
    ELSE [q EXCEPT !.dirty = @ \cup {k}, !.queue = Append(@, k)]

(* get(): pops the head, marks it processing and clears its dirty mark.    *)
Get(q) ==
    [q EXCEPT !.queue = Tail(@),
              !.processing = @ \cup {Head(q.queue)},
              !.dirty = @ \ {Head(q.queue)}]

(* done(key): releases the in-flight marker; a key added meanwhile is      *)
(* re-queued.                                                              *)
Done(q, k) ==
    IF k \in q.dirty
    THEN [q EXCEPT !.processing = @ \ {k}, !.queue = Append(@, k)]
    ELSE [q EXCEPT !.processing = @ \ {k}]

(* numRequeues(key): the key's failure count.                              *)
NumRequeues(q, k) == q.failures[k]

(* addRateLimited(key): counts a failure and schedules add(key) after the  *)
(* backoff delay; one delayed entry per key.                               *)
AddRateLimited(q, k) ==
    [q EXCEPT !.failures[k] = @ + 1, !.waiting = @ \cup {k}]

(* forget(key): resets the failure counter.                                *)
Forget(q, k) == [q EXCEPT !.failures[k] = 0]

(* ----------------------- the generic controller ----------------------- *)
DefaultNumRequeues == 5

(* New: numRequeues := 5; if options.NumRequeues == 0 { numRequeues = 5 }  *)
New(opts) ==
    LET n0 == DefaultNumRequeues
    IN  IF opts.NumRequeues = 0 THEN DefaultNumRequeues ELSE n0

(* Enqueue: derives the key and calls queue.Add.                           *)
Enqueue(q, k) == Add(q, k)

(* Mutant: Done called at once instead of deferred.                        *)
GetAndDoneAtOnce(q) == Done(Get(q), Head(q.queue))

(* k, quit := c.queue.Get(); defer c.queue.Done(k): the key stays marked   *)
(* until processNextItem returns.                                          *)
GetAndDeferDone(q) == Get(q)

(* Mutant: Done is never called.                                           *)
DoneForgotten(q, k) == q

(* The deferred c.queue.Done(k), run when processNextItem returns.         *)
DeferredDone(q, k) == Done(q, k)

(* prev.DeepCopyObject(): a structural copy.                               *)
DeepCopyObject(o) == o

(* var cur, prev O; if obj != nil { prev = obj; cur = copy of prev }       *)
Snapshot(obj) ==
    IF obj # Nil THEN [prev |-> obj, cur |-> DeepCopyObject(obj)]
    ELSE [prev |-> Nil, cur |-> Nil]

(* Mutant: cur is the object read from the store, not a copy of it.        *)
CurRefNoCopy(obj) == IF obj = Nil THEN "nil" ELSE "prev"

(* cur = prev.DeepCopyObject().(O): cur points to a fresh object, never to *)
(* the one prev (and the store) points to.                                 *)
CurRef(obj) == IF obj = Nil THEN "nil" ELSE "copy"

(* c.indexer.GetByKey(key) / lister Get: the object stored under the key,  *)
(* nil when there is none.                                                 *)
GetByKey(ix, k) == IF k \in DOMAIN ix THEN ix[k] ELSE Nil

(* Mutant: every key splits.                                               *)
SplitKeyNeverFails(k) == FALSE

(* cache.SplitMetaNamespaceKey / kcpcache.SplitMetaClusterNamespaceKey:    *)
(* fails on a key with too many segments.                                  *)
SplitKeyFails(k) == k \in MalformedKeys

(* Mutant: a key whose object is gone is dropped without reconciling.      *)
AfterGetByKeySkipDeleted(obj, lookupErr) ==
    IF lookupErr THEN "handle" ELSE IF obj = Nil THEN "done" ELSE "reconcile"

(* After indexer.GetByKey: an error goes to handleError; otherwise         *)
(* Reconcile is called, whether or not the object was found.               *)
AfterGetByKey(obj, lookupErr) ==
    IF lookupErr THEN "handle" ELSE "reconcile"

(* Mutant: PostReconcile is not told Reconcile's error.                    *)
PostReconcileCallNoErr(p, c, e) == Call("PostReconcile", p, c, {})

(* c.recon.PostReconcile(ctx, clusterAwareName, prev, cur, err)            *)
PostReconcileCall(p, c, e) == Call("PostReconcile", p, c, e)

(* Mutant: only PostReconcile's error survives.                            *)
CombineErrorsPostOnly(e, pe) == pe

(* if pErr != nil { err = pErr }                                           *)
CombineErrors(e, pe) == IF pe # {} THEN pe ELSE e

(* Mutant: off by one in the retry bound.                                  *)
handleErrorOffByOne(q, n, k) ==
    IF NumRequeues(q, k) <= n
    THEN [queue |-> AddRateLimited(q, k), op |-> "AddRateLimited"]
    ELSE [queue |-> Forget(q, k), op |-> "Forget+HandleError"]

(* handleError: retry with AddRateLimited while NumRequeues(key) is below  *)
(* c.numRequeues, else Forget and report to the error sink.                *)
handleError(q, n, k) ==
    IF NumRequeues(q, k) < n
    THEN [queue |-> AddRateLimited(q, k), op |-> "AddRateLimited"]
    ELSE [queue |-> Forget(q, k), op |-> "Forget+HandleError"]

(* --------------------- the APIBinding controller ---------------------- *)
Exports == {"root:org|e1", "root:org|e2"}

(* e1 lists schema s1; e2 lists s1 and s2 (keys are <<cluster, name>>).    *)
ExportSchemas(e) ==
    IF e = "root:org|e1" THEN {<<"root:org", "s1">>}
    ELSE {<<"root:org", "s1">>, <<"root:org", "s2">>}

(* What the two APIResourceSchema listers hold.                            *)
LocalSchemas == {<<"root:org", "s1">>}
RemoteSchemas == {<<"root:org", "s2">>}

ShadowWorkspaceName == "system:bound-crds"

(* CRDs that are notified: the CRD's logical cluster, its name and its     *)
(* schema-cluster and schema-name annotations ("" when missing): bound     *)
(* CRDs of schema s1 and s2, one naming a schema no lister holds, one      *)
(* lacking each annotation, and one outside the bound-CRDs workspace.      *)
CRD(c, n, sc, sn) == [cluster |-> c, name |-> n, schemaCluster |-> sc, schemaName |-> sn]

CRDs ==
    {CRD(ShadowWorkspaceName, "crd1", "root:org", "s1"),
     CRD(ShadowWorkspaceName, "crd1", "root:org", "s2"),
     CRD(ShadowWorkspaceName, "crd1", "root:org", "s3"),
     CRD(ShadowWorkspaceName, "crd1", "", "s1"),
     CRD(ShadowWorkspaceName, "crd1", "root:org", ""),
     CRD("root:org", "crd1", "root:org", "s1")}

(* The orders in which an index lookup may list the members of S.          *)
Orders(S) ==
    {f \in [1..Cardinality(S) -> S] : \A i, j \in DOMAIN f : f[i] = f[j] => i = j}

(* apiBindingsIndexer.ByIndex(indexAPIBindingsByWorkspaceExport, key)      *)
BindingsForExport(e) == {b \in Keys : indexer[b] # Nil /\ exportRef[b] = e}

(* ByIndex(indexAPIExportsByAPIResourceSchema, key) on an export indexer   *)
ExportsForSchema(held, s) == {e \in held : s \in ExportSchemas(e)}

(* Mutant: the loop stops after the first binding.                         *)
enqueueAPIExportFirstOnly(e) ==
    {IF o = <<>> THEN <<>> ELSE <<o[1]>> : o \in Orders(BindingsForExport(e))}

(* enqueueAPIExport: Enqueue is called for every APIBinding the            *)
(* bindings-by-export index lists for the export; the result is the set of *)
(* call sequences, one per order the index may list them in.               *)
enqueueAPIExport(e) == Orders(BindingsForExport(e))

(* for _, export := range apiExports { c.enqueueAPIExport(export, ...) }   *)
RECURSIVE ForEachExport(_)
ForEachExport(es) ==
    IF es = {} THEN {<<>>}
    ELSE UNION {{first \o rest : first \in enqueueAPIExport(e),
                                 rest \in ForEachExport(es \ {e})} : e \in es}

(* enqueueAPIResourceSchema: the exports listing the schema in the local   *)
(* index, or, when there are none, those in the remote-shard index; each   *)
(* goes through enqueueAPIExport.                                          *)
enqueueAPIResourceSchema(s) ==
    LET local == ExportsForSchema(localExports, s)
        apiExports == IF local = {} THEN ExportsForSchema(remoteExports, s)
                      ELSE local
    IN  ForEachExport(apiExports)

(* getAPIResourceSchema: the local lister, then the remote-shard lister    *)
(* when the local one has no such schema.                                  *)
getAPIResourceSchema(cluster, name) ==
    [found |-> <<cluster, name>> \in LocalSchemas \cup RemoteSchemas,
     schema |-> <<cluster, name>>]

(* Mutant: the filter lets every CRD through.                              *)
FilterFuncAll(crd) == TRUE

(* The CRD handler's FilterFunc.                                           *)
FilterFunc(crd) == crd.cluster = ShadowWorkspaceName

(* enqueueCRD reaches enqueueAPIResourceSchema only with both annotations  *)
(* set and the schema fetched.                                             *)
ReachesSchema(crd) ==
    /\ crd.schemaCluster # "" /\ crd.schemaName # ""
    /\ getAPIResourceSchema(crd.schemaCluster, crd.schemaName).found

enqueueCRD(crd) ==
    IF ReachesSchema(crd)
    THEN enqueueAPIResourceSchema(
             getAPIResourceSchema(crd.schemaCluster, crd.schemaName).schema)
    ELSE {<<>>}

RECURSIVE EnqueueEach(_, _)
EnqueueEach(q, ks) ==
    IF ks = <<>> THEN q ELSE EnqueueEach(Enqueue(q, Head(ks)), Tail(ks))

(* Every binding of an export, in either index, that lists schema s.       *)
DependentsOfSchema(s) ==
    {b \in Keys : \E e \in localExports \cup remoteExports :
        s \in ExportSchemas(e) /\ b \in BindingsForExport(e)}

(* ------------------------- history bookkeeping ------------------------ *)
(* hist[k] follows a key from its first enqueue for as long as it was      *)
(* enqueued once and every pass ended in a failed Reconcile (clean); after *)
(* that only lookupErr, whether a store lookup of the key ever failed, is  *)
(* kept.                                                                   *)
Poisoned(h) ==
    [enq |-> 1, recFail |-> 0, arl |-> 0, reports |-> 0, clean |-> FALSE,
     lookupErr |-> h.lookupErr]

HistEnqueue(h) ==
    IF h.clean /\ h.enq = 0 THEN [h EXCEPT !.enq = 1] ELSE Poisoned(h)

HistLookupErr(h) == Poisoned([h EXCEPT !.lookupErr = TRUE])

HistReconcile(h, e) ==
    IF h.clean /\ e # {} THEN [h EXCEPT !.recFail = @ + 1] ELSE Poisoned(h)

HistHandle(h, op) ==
    IF ~h.clean THEN Poisoned(h)
    ELSE IF op = "AddRateLimited" THEN [h EXCEPT !.arl = @ + 1]
    ELSE [h EXCEPT !.reports = @ + 1]

(* ------------------------------- actions ------------------------------ *)
InitController ==
    /\ numRequeues = New(options)
    /\ queue = [queue |-> <<>>, dirty |-> {}, processing |-> {}, waiting |-> {},
                failures |-> [k \in AllKeys |-> 0]]
    /\ pc = [w \in Workers |-> "idle"]
    /\ wkey = [w \in Workers |-> NoKey]
    /\ prev = [w \in Workers |-> Nil]
    /\ cur = [w \in Workers |-> Nil]
    /\ err = [w \in Workers |-> {}]
    /\ log = [w \in Workers |-> <<>>]
    /\ nEvents = 0
    /\ owed = [k \in AllKeys |-> 0]
    /\ enqDuring = [k \in AllKeys |-> 0]
    /\ hist = [k \in AllKeys |->
                 [enq |-> 0, recFail |-> 0, arl |-> 0, reports |-> 0, clean |-> TRUE,
                  lookupErr |-> FALSE]]
    /\ dropped = [k \in AllKeys |-> FALSE]
    /\ deletedCRDTracker = {}
    /\ expectExport = [k \in AllKeys |-> 0]
    /\ expectSchema = {}
    /\ curRef = [w \in Workers |-> "nil"]
    /\ ctx = "running"
    /\ shuttingDown = FALSE
    /\ gotAfterCancel = [w \in Workers |-> FALSE]
    /\ requeue = [w \in Workers |-> FALSE]
    /\ resyncPeriod = options.ResyncPeriod
    /\ missed = [k \in AllKeys |-> Nil]
    /\ crdPending = NoCall
    /\ note = NoCall
    /\ trig = [k \in AllKeys |-> {}]
    /\ startTrig = [w \in Workers |-> {}]
    /\ clock = 0
    /\ bucket = [tokens |-> BucketBurst, last |-> 0]
    /\ lastDelay = [k \in AllKeys |-> 0]
    /\ prevDelay = [k \in AllKeys |-> 0]

(* A controller built by New with either option; no APIBinding exists yet; *)
(* the store lookup, Reconcile and PostReconcile can each fail.            *)
Init ==
    /\ options \in [NumRequeues : NumRequeuesOptions, ResyncPeriod : {0}]
    /\ ctl = "generic"
    /\ faults = {"GetByKey", "Reconcile", "PostReconcile"}
    /\ indexer = [k \in Keys |-> Nil]
    /\ exportRef = [k \in Keys |-> "root:org|e1"]
    /\ localExports = {"root:org|e1"}
    /\ remoteExports = {"root:org|e2"}
    /\ InitController

(* The APIBinding controller as NewController builds it (Options with only *)
(* a Name), both APIBindings in the store, each referencing some export,   *)
(* export e2 in the remote-shard index and e1 in the local index or not    *)
(* yet there; store and reconciler do not fail, so no key is retried.      *)
InitBindings ==
    /\ options = [NumRequeues |-> 0, ResyncPeriod |-> 0]
    /\ ctl = "generic"
    /\ faults = {}
    /\ indexer = [k \in Keys |-> 1]
    /\ exportRef \in [Keys -> Exports]
    /\ localExports \in SUBSET {"root:org|e1"}
    /\ remoteExports = {"root:org|e2"}
    /\ InitController

(* Bookkeeping of Enqueue calls for the keys of the sequence ks. The       *)
(* counters tell 0, 1 and "2 or more" apart.                               *)
Times(ks, k) == Count(ks, k)

AtMost2(n) == IF n > 2 THEN 2 ELSE n

Enqueued(ks) ==
    /\ owed' = [k \in AllKeys |-> AtMost2(owed[k] + Times(ks, k))]
    /\ enqDuring' = [k \in AllKeys |->
                       IF InFlight(k) THEN AtMost2(enqDuring[k] + Times(ks, k))
                       ELSE enqDuring[k]]
    /\ hist' = [k \in AllKeys |->
                  IF Times(ks, k) > 0 THEN HistEnqueue(hist[k]) ELSE hist[k]]
    /\ dropped' = [k \in AllKeys |-> IF Times(ks, k) > 0 THEN FALSE ELSE dropped[k]]

(* An informer notification (add, update, resync or delete) for the object *)
(* of key k: the store holds v afterwards and the handler calls Enqueue.   *)
Notify(k, v) ==
    /\ nEvents < MaxEvents
    /\ ~(indexer[k] = Nil /\ v = Nil)
    /\ nEvents' = nEvents + 1
    /\ indexer' = [indexer EXCEPT ![k] = v]
    /\ queue' = Enqueue(queue, k)
    /\ Enqueued(<<k>>)
    /\ UNCHANGED <<bindVars, extVars>>
    /\ UNCHANGED <<options, faults, numRequeues, pc, wkey, prev, cur, err, log>>

(* The delaying queue's timer: a delayed key becomes ready and is added.   *)
TimerFire(k) ==
    /\ k \in queue.waiting
    /\ queue' = Add([queue EXCEPT !.waiting = @ \ {k}], k)
    /\ UNCHANGED <<bindVars, extVars>>
    /\ UNCHANGED <<options, faults, numRequeues, indexer, pc, wkey, prev, cur, err, log,
                   nEvents, owed, enqDuring, hist, dropped>>

(* processNextItem, lines 136-140: dequeue a key.                          *)
processNextItem_Get(w) ==
    /\ pc[w] = "idle"
    /\ queue.queue # <<>>
    /\ LET k == Head(queue.queue) IN
        /\ queue' = GetAndDeferDone(queue)
        /\ wkey' = [wkey EXCEPT ![w] = k]
        /\ owed' = [owed EXCEPT ![k] = 0]
        /\ enqDuring' = [enqDuring EXCEPT ![k] = 0]
        /\ expectExport' = [expectExport EXCEPT ![k] = 0]
        /\ expectSchema' = expectSchema \ {k}
        /\ startTrig' = [startTrig EXCEPT ![w] = trig[k]]
        /\ trig' = [trig EXCEPT ![k] = {}]
    /\ gotAfterCancel' = [gotAfterCancel EXCEPT ![w] = (ctx = "cancelled")]
    /\ pc' = [pc EXCEPT ![w] = "lookup"]
    /\ log' = [log EXCEPT ![w] = <<>>]
    /\ UNCHANGED <<exportRef, localExports, remoteExports, deletedCRDTracker>>
    /\ UNCHANGED <<lifeVars, resyncVars, rlVars, curRef, requeue, crdPending, note>>
    /\ UNCHANGED <<options, faults, numRequeues, indexer, prev, cur, err, nEvents, hist,
                   dropped>>

(* processNextItem, lines 154-166: the store lookup and the snapshot pair. *)
processNextItem_GetByKey(w) ==
    /\ pc[w] = "lookup"
    /\ ~SplitKeyFails(wkey[w])
    /\ \E lookupErr \in {FALSE} \cup {"GetByKey" \in faults} :
        LET k == wkey[w]
            obj == GetByKey(indexer, k)
            snap == Snapshot(obj)
        IN  /\ pc' = [pc EXCEPT ![w] = AfterGetByKey(obj, lookupErr)]
            /\ IF lookupErr
               THEN /\ err' = [err EXCEPT ![w] = {"GetByKey"}]
                    /\ hist' = [hist EXCEPT ![k] = HistLookupErr(@)]
                    /\ UNCHANGED <<prev, cur, curRef>>
               ELSE /\ prev' = [prev EXCEPT ![w] = snap.prev]
                    /\ cur' = [cur EXCEPT ![w] = snap.cur]
                    /\ curRef' = [curRef EXCEPT ![w] = CurRef(obj)]
                    /\ UNCHANGED <<err, hist>>
            /\ log' = [log EXCEPT ![w] =
                         Append(@, Call("GetByKey", obj, obj,
                                        IF lookupErr THEN {"GetByKey"} ELSE {}))]
    /\ UNCHANGED <<bindVars, lifeVars, resyncVars, rlVars, gotAfterCancel, requeue,
                   crdPending, note, trig, startTrig>>
    /\ UNCHANGED <<options, faults, numRequeues, queue, indexer, wkey, nEvents, owed,
                   enqDuring, dropped>>

(* processNextItem, line 167: err = c.recon.Reconcile(ctx, cur). The       *)
(* reconciler may change the object cur points to and may fail; what it    *)
(* writes is seen through every reference to that object.                  *)
processNextItem_Reconcile(w) ==
    /\ pc[w] = "reconcile"
    /\ \E e \in {{}} \cup {{f} : f \in faults \cap {"Reconcile"}} :
       \E c \in (IF cur[w] = Nil THEN {Nil} ELSE Objs) :
        /\ err' = [err EXCEPT ![w] = e]
        /\ log' = [log EXCEPT ![w] = Append(@, Call("Reconcile", Nil, cur[w], e))]
        /\ cur' = [cur EXCEPT ![w] = c]
        /\ prev' = IF curRef[w] = "prev" THEN [prev EXCEPT ![w] = c] ELSE prev
        /\ hist' = [hist EXCEPT ![wkey[w]] = HistReconcile(@, e)]
    /\ pc' = [pc EXCEPT ![w] = "post"]
    /\ UNCHANGED <<bindVars, extVars>>
    /\ UNCHANGED <<options, faults, numRequeues, queue, indexer, wkey, nEvents, owed,
                   enqDuring, dropped>>

(* processNextItem, lines 168-177: PostReconcile, then the combined error  *)
(* decides whether handleError runs. PostReconcile may succeed, fail with  *)
(* its own error, or fail with an error that wraps the one it was given.   *)
processNextItem_PostReconcile(w) ==
    /\ pc[w] = "post"
    /\ \E pErr \in {{}} \cup
            {pe \in {{"PostReconcile"}, {"PostReconcile"} \cup err[w]} :
                "PostReconcile" \in faults} :
        LET e == CombineErrors(err[w], pErr) IN
        /\ log' = [log EXCEPT ![w] = Append(Append(@,
                      PostReconcileCall(prev[w], cur[w], err[w])),
                      Call("PostReconcile returned", Nil, Nil, pErr))]
        /\ err' = [err EXCEPT ![w] = e]
        /\ pc' = [pc EXCEPT ![w] = IF e # {} THEN "handle" ELSE "done"]
    /\ UNCHANGED <<bindVars, extVars>>
    /\ UNCHANGED <<options, faults, numRequeues, queue, indexer, wkey, prev, cur, nEvents,
                   owed, enqDuring, hist, dropped>>

(* c.handleError(err, k)                                                   *)
processNextItem_handleError(w) ==
    /\ pc[w] = "handle"
    /\ LET k == wkey[w]
           r == handleError(queue, numRequeues, k)
       IN  /\ queue' = r.queue
           /\ log' = [log EXCEPT ![w] = Append(@, Call(r.op, Nil, Nil, err[w]))]
           /\ hist' = [hist EXCEPT ![k] = HistHandle(@, r.op)]
           /\ dropped' = [dropped EXCEPT ![k] =
                            IF /\ r.op = "Forget+HandleError"
                               /\ owed[k] = 0 /\ ~hist[k].lookupErr
                            THEN TRUE ELSE @]
    /\ pc' = [pc EXCEPT ![w] = "done"]
    /\ UNCHANGED <<bindVars, extVars>>
    /\ UNCHANGED <<options, faults, numRequeues, indexer, wkey, prev, cur, err, nEvents,
                   owed, enqDuring>>

(* processNextItem returns: the deferred Done runs.                        *)
processNextItem_Done(w) ==
    /\ pc[w] = "done"
    /\ queue' = DeferredDone(queue, wkey[w])
    /\ pc' = [pc EXCEPT ![w] = "idle"]
    /\ wkey' = [wkey EXCEPT ![w] = NoKey]
    /\ prev' = [prev EXCEPT ![w] = Nil]
    /\ cur' = [cur EXCEPT ![w] = Nil]
    /\ err' = [err EXCEPT ![w] = {}]
    /\ log' = [log EXCEPT ![w] = <<>>]
    /\ curRef' = [curRef EXCEPT ![w] = "nil"]
    /\ gotAfterCancel' = [gotAfterCancel EXCEPT ![w] = FALSE]
    /\ requeue' = [requeue EXCEPT ![w] = FALSE]
    /\ startTrig' = [startTrig EXCEPT ![w] = {}]
    /\ UNCHANGED <<bindVars, lifeVars, resyncVars, rlVars, crdPending, note, trig>>
    /\ UNCHANGED <<options, faults, numRequeues, indexer, nEvents, owed, enqDuring, hist,
                   dropped>>

Next ==
    \/ \E k \in WatchedKeys : \E v \in Objs \cup {Nil} : Notify(k, v)
    \/ \E k \in Keys : TimerFire(k)
    \/ \E w \in Workers : processNextItem_Get(w)
    \/ \E w \in Workers : processNextItem_GetByKey(w)
    \/ \E w \in Workers : processNextItem_Reconcile(w)
    \/ \E w \in Workers : processNextItem_PostReconcile(w)
    \/ \E w \in Workers : processNextItem_handleError(w)
    \/ \E w \in Workers : processNextItem_Done(w)

Spec == Init /\ [][Next]_vars

(* A notification (add, update or delete) from either APIExport informer.  *)
NotifyAPIExport(e) ==
    /\ nEvents < MaxEvents
    /\ nEvents' = nEvents + 1
    /\ \E ks \in enqueueAPIExport(e) :
        /\ queue' = EnqueueEach(queue, ks)
        /\ Enqueued(ks)
    /\ expectExport' = [b \in AllKeys |->
                          IF b \in BindingsForExport(e)
                          THEN AtMost2(expectExport[b] + 1)
                          ELSE expectExport[b]]
    /\ UNCHANGED extVars
    /\ UNCHANGED <<options, faults, numRequeues, indexer, pc, wkey, prev, cur, err, log>>
    /\ UNCHANGED <<exportRef, localExports, remoteExports, deletedCRDTracker,
                   expectSchema>>

(* A notification (add, update or delete) from either APIResourceSchema    *)
(* informer.                                                               *)
NotifyAPIResourceSchema(s) ==
    /\ nEvents < MaxEvents
    /\ nEvents' = nEvents + 1
    /\ \E ks \in enqueueAPIResourceSchema(s) :
        /\ queue' = EnqueueEach(queue, ks)
        /\ Enqueued(ks)
    /\ expectSchema' = expectSchema \cup DependentsOfSchema(s)
    /\ UNCHANGED extVars
    /\ UNCHANGED <<options, faults, numRequeues, indexer, pc, wkey, prev, cur, err, log>>
    /\ UNCHANGED <<exportRef, localExports, remoteExports, deletedCRDTracker,
                   expectExport>>

(* A CRD notification through the FilteringResourceEventHandler: Add and   *)
(* Update call enqueueCRD; Delete first records the name in the tracker.   *)
CRDEventHandler(crd, kind) ==
    /\ nEvents < MaxEvents
    /\ nEvents' = nEvents + 1
    /\ IF FilterFunc(crd)
       THEN /\ deletedCRDTracker' =
                  IF kind = "delete" THEN deletedCRDTracker \cup {crd.name}
                  ELSE deletedCRDTracker
            /\ \E ks \in enqueueCRD(crd) :
                /\ queue' = EnqueueEach(queue, ks)
                /\ Enqueued(ks)
            /\ expectSchema' =
                  IF ReachesSchema(crd)
                  THEN expectSchema \cup DependentsOfSchema(
                           <<crd.schemaCluster, crd.schemaName>>)
                  ELSE expectSchema
       ELSE UNCHANGED <<deletedCRDTracker, queue, owed, enqDuring, hist, dropped,
                        expectSchema>>
    /\ UNCHANGED <<options, faults, numRequeues, indexer, pc, wkey, prev, cur, err, log>>
    /\ UNCHANGED <<exportRef, localExports, remoteExports, expectExport>>

NotifyCRD(crd, kind) == CRDEventHandler(crd, kind) /\ UNCHANGED extVars

NextBindings ==
    \/ \E e \in Exports : NotifyAPIExport(e)
    \/ \E s \in LocalSchemas \cup RemoteSchemas : NotifyAPIResourceSchema(s)
    \/ \E crd \in CRDs : \E kind \in {"add", "update", "delete"} :
           NotifyCRD(crd, kind)
    \/ \E w \in Workers : processNextItem_Get(w)
    \/ \E w \in Workers : processNextItem_GetByKey(w)
    \/ \E w \in Workers : processNextItem_Reconcile(w)
    \/ \E w \in Workers : processNextItem_PostReconcile(w)
    \/ \E w \in Workers : processNextItem_Done(w)

SpecBindings == InitBindings /\ [][NextBindings]_vars

(* ---------------- the CRD DeleteFunc, statement by statement ---------- *)
(* Mutant: the DeleteFunc enqueues before it records the name.             *)
DeleteFuncStepsEnqueueFirst == <<"enqueue", "track">>

(* DeleteFunc, lines 154-167: c.deletedCRDTracker.Add(meta.GetName()),     *)
(* then c.enqueueCRD(obj, logger).                                         *)
DeleteFuncSteps == <<"track", "enqueue">>

(* The CRD informer calls DeleteFunc for a deleted CRD that passed         *)
(* FilterFunc; an informer delivers its notifications one at a time.       *)
CRDDeleteFunc_Call(crd) ==
    /\ crdPending = NoCall
    /\ nEvents < MaxEvents
    /\ FilterFunc(crd)
    /\ nEvents' = nEvents + 1
    /\ crdPending' = [step |-> 1, crd |-> crd]
    /\ UNCHANGED <<options, faults, numRequeues, queue, indexer, pc, wkey, prev, cur, err,
                   log, owed, enqDuring, hist, dropped>>
    /\ UNCHANGED <<bindVars, lifeVars, resyncVars, rlVars, curRef, gotAfterCancel,
                   requeue, note, trig, startTrig>>

(* The next statement of the DeleteFunc call in progress; the workers run  *)
(* concurrently with it.                                                   *)
CRDDeleteFunc_Step ==
    /\ crdPending # NoCall
    /\ LET crd == crdPending.crd IN
        IF DeleteFuncSteps[crdPending.step] = "track"
        THEN /\ deletedCRDTracker' = deletedCRDTracker \cup {crd.name}
             /\ UNCHANGED <<queue, owed, enqDuring, hist, dropped, expectSchema, trig>>
        ELSE /\ \E ks \in enqueueCRD(crd) :
                  /\ queue' = EnqueueEach(queue, ks)
                  /\ Enqueued(ks)
                  /\ trig' = [k \in AllKeys |->
                                IF Times(ks, k) > 0 THEN trig[k] \cup {crd.name}
                                ELSE trig[k]]
             /\ expectSchema' =
                   IF ReachesSchema(crd)
                   THEN expectSchema \cup DependentsOfSchema(
                            <<crd.schemaCluster, crd.schemaName>>)
                   ELSE expectSchema
             /\ UNCHANGED deletedCRDTracker
    /\ crdPending' = IF crdPending.step = Len(DeleteFuncSteps) THEN NoCall
                     ELSE [crdPending EXCEPT !.step = @ + 1]
    /\ UNCHANGED <<options, faults, numRequeues, indexer, pc, wkey, prev, cur, err, log,
                   nEvents>>
    /\ UNCHANGED <<exportRef, localExports, remoteExports, expectExport>>
    /\ UNCHANGED <<lifeVars, resyncVars, rlVars, curRef, gotAfterCancel, requeue,
                   note, startTrig>>

NextTombstone ==
    \/ \E crd \in CRDs : CRDDeleteFunc_Call(crd)
    \/ CRDDeleteFunc_Step
    \/ \E w \in Workers : processNextItem_Get(w)
    \/ \E w \in Workers : processNextItem_GetByKey(w)
    \/ \E w \in Workers : processNextItem_Reconcile(w)
    \/ \E w \in Workers : processNextItem_PostReconcile(w)
    \/ \E w \in Workers : processNextItem_Done(w)

(* The APIBinding controller while bound CRDs are deleted.                 *)
SpecTombstone == InitBindings /\ [][NextTombstone]_vars

(* The same CRD notification, with what the handler found and left         *)
(* recorded in note.                                                       *)
CRDInformer_Notify(crd, kind) ==
    /\ CRDEventHandler(crd, kind)
    /\ note' = [op |-> "CRD", obj |-> crd, kind |-> kind,
                q0 |-> queue, q1 |-> queue',
                t0 |-> deletedCRDTracker, t1 |-> deletedCRDTracker']
    /\ UNCHANGED <<lifeVars, resyncVars, rlVars, curRef, gotAfterCancel, requeue,
                   crdPending, trig, startTrig>>

NextCRDFilter ==
    \/ \E crd \in CRDs : \E kind \in {"add", "update", "delete"} :
           CRDInformer_Notify(crd, kind)
    \/ \E w \in Workers : processNextItem_Get(w)
    \/ \E w \in Workers : processNextItem_GetByKey(w)
    \/ \E w \in Workers : processNextItem_Reconcile(w)
    \/ \E w \in Workers : processNextItem_PostReconcile(w)
    \/ \E w \in Workers : processNextItem_Done(w)

(* The APIBinding controller under CRD notifications of every kind.        *)
SpecCRDFilter == InitBindings /\ [][NextCRDFilter]_vars

(* --------------- the ClusterRole replication controller --------------- *)
(* Mutant: the committer writes whether or not anything changed.           *)
commitAlwaysWrites(o, n) == 1

(* committer: the number of writes commit(ctx, old, new) issues: none when *)
(* old and new are structurally equal, a single patch otherwise.           *)
commit(o, n) == IF o = n THEN 0 ELSE 1

(* Mutant: a ClusterRole that is gone is reported as an error.             *)
ListerGetNotFoundIsError(obj, fails) ==
    IF fails THEN [next |-> "followup", errs |-> {"Get"}]
    ELSE IF obj = Nil THEN [next |-> "followup", errs |-> {"NotFound"}]
    ELSE [next |-> "cr_reconcile", errs |-> {}]

(* process, lines 213-219: c.clusterRoleLister.Cluster(parent).Get(name);  *)
(* NotFound returns (false, nil), another error is returned as it is.      *)
ListerGet(obj, fails) ==
    IF fails THEN [next |-> "followup", errs |-> {"Get"}]
    ELSE IF obj = Nil THEN [next |-> "followup", errs |-> {}]
    ELSE [next |-> "cr_reconcile", errs |-> {}]

(* Mutant: a requeue request wins over an error.                           *)
FollowUpRequeueFirst(e, rq) ==
    IF rq THEN "Add" ELSE IF e # {} THEN "AddRateLimited" ELSE "Forget"

(* processNextWorkItem, lines 194-204.                                     *)
FollowUp(e, rq) ==
    IF e # {} THEN "AddRateLimited" ELSE IF rq THEN "Add" ELSE "Forget"

(* A ClusterRole informer notification (add, update or delete): the store  *)
(* holds v afterwards and enqueueClusterRole adds the key.                 *)
NotifyClusterRole(k, v) == Notify(k, v)

(* Enqueue / enqueueClusterRole with an object whose key cannot be split   *)
(* back: the key function does not fail and the key is added.              *)
EnqueueMalformed(k) ==
    /\ nEvents < MaxEvents
    /\ nEvents' = nEvents + 1
    /\ queue' = Enqueue(queue, k)
    /\ Enqueued(<<k>>)
    /\ UNCHANGED <<bindVars, extVars>>
    /\ UNCHANGED <<options, faults, numRequeues, indexer, pc, wkey, prev, cur, err, log>>

(* processNextItem, lines 148-152: the key does not split; return true     *)
(* (the deferred Done follows).                                            *)
processNextItem_InvalidKey(w) ==
    /\ pc[w] = "lookup"
    /\ SplitKeyFails(wkey[w])
    /\ pc' = [pc EXCEPT ![w] = "done"]
    /\ log' = [log EXCEPT ![w] = Append(@, Call("SplitKey", Nil, Nil, {"invalid key"}))]
    /\ UNCHANGED <<bindVars, extVars>>
    /\ UNCHANGED <<options, faults, numRequeues, queue, indexer, wkey, prev, cur, err,
                   nEvents, owed, enqDuring, hist, dropped>>

(* processNextWorkItem, lines 180-192: k, quit := c.queue.Get() with an    *)
(* item to take (also after ShutDown), and defer c.queue.Done(key).        *)
processNextWorkItem_Get(w) == processNextItem_Get(w)

(* processNextWorkItem, lines 180-183: Get reports quit once the queue is  *)
(* shut down and empty; startWorker's loop ends.                           *)
processNextWorkItem_Quit(w) ==
    /\ pc[w] = "idle"
    /\ shuttingDown /\ queue.queue = <<>>
    /\ pc' = [pc EXCEPT ![w] = "exited"]
    /\ UNCHANGED <<bindVars, extVars>>
    /\ UNCHANGED <<options, faults, numRequeues, queue, indexer, wkey, prev, cur, err, log,
                   nEvents, owed, enqDuring, hist, dropped>>

(* wait.Until in the generic Start: the stop channel is checked before     *)
(* every call of processNextItem; once it is closed the worker ends.       *)
Until_Stop(w) ==
    /\ pc[w] = "idle"
    /\ ctx = "cancelled"
    /\ pc' = [pc EXCEPT ![w] = "exited"]
    /\ UNCHANGED <<bindVars, extVars>>
    /\ UNCHANGED <<options, faults, numRequeues, queue, indexer, wkey, prev, cur, err, log,
                   nEvents, owed, enqDuring, hist, dropped>>

(* process, lines 208-222: split the key, read the ClusterRole from the    *)
(* lister, keep old and a deep copy cr.                                    *)
process_Get(w) ==
    /\ pc[w] = "lookup"
    /\ LET k == wkey[w] IN
        IF SplitKeyFails(k)
        THEN /\ pc' = [pc EXCEPT ![w] = "followup"]
             /\ log' = [log EXCEPT ![w] =
                          Append(@, Call("SplitKey", Nil, Nil, {"invalid key"}))]
             /\ UNCHANGED <<prev, cur, curRef, err>>
        ELSE \E fails \in {FALSE} \cup {"Get" \in faults} :
             LET obj == GetByKey(indexer, k)
                 r == ListerGet(obj, fails)
                 snap == Snapshot(obj)
             IN  /\ pc' = [pc EXCEPT ![w] = r.next]
                 /\ err' = [err EXCEPT ![w] = r.errs]
                 /\ log' = [log EXCEPT ![w] = Append(@, Call("Get", obj, obj, r.errs))]
                 /\ IF r.next = "cr_reconcile"
                    THEN /\ prev' = [prev EXCEPT ![w] = snap.prev]
                         /\ cur' = [cur EXCEPT ![w] = snap.cur]
                         /\ curRef' = [curRef EXCEPT ![w] = CurRef(obj)]
                    ELSE UNCHANGED <<prev, cur, curRef>>
    /\ UNCHANGED <<bindVars, lifeVars, resyncVars, rlVars, gotAfterCancel, requeue,
                   crdPending, note, trig, startTrig>>
    /\ UNCHANGED <<options, faults, numRequeues, queue, indexer, wkey, nEvents, owed,
                   enqDuring, hist, dropped>>

(* process, lines 227-231: requeue, err := c.reconcile(ctx, cr); reconcile *)
(* may change the object cr points to, ask for a requeue, and fail.        *)
process_reconcile(w) ==
    /\ pc[w] = "cr_reconcile"
    /\ \E rq \in BOOLEAN :
       \E e \in {{}} \cup {{f} : f \in faults \cap {"reconcile"}} :
       \E c \in Objs :
        /\ requeue' = [requeue EXCEPT ![w] = rq]
        /\ err' = [err EXCEPT ![w] = e]
        /\ log' = [log EXCEPT ![w] = Append(@, Call("reconcile", Nil, cur[w], e))]
        /\ cur' = [cur EXCEPT ![w] = c]
        /\ prev' = IF curRef[w] = "prev" THEN [prev EXCEPT ![w] = c] ELSE prev
    /\ pc' = [pc EXCEPT ![w] = "cr_commit"]
    /\ UNCHANGED <<bindVars, lifeVars, resyncVars, rlVars, curRef, gotAfterCancel,
                   crdPending, note, trig, startTrig>>
    /\ UNCHANGED <<options, faults, numRequeues, queue, indexer, wkey, nEvents, owed,
                   enqDuring, hist, dropped>>

(* Mutant: commit's error replaces reconcile's.                            *)
NewAggregateLastOnly(errs, e) == IF e # {} THEN e ELSE errs

(* errs = append(errs, err) ... utilerrors.NewAggregate(errs): one error   *)
(* carrying every cause.                                                   *)
NewAggregate(errs, e) == errs \cup e

(* process, lines 233-238: c.commit(ctx, old, cr), whatever reconcile      *)
(* returned; a write may fail; the errors are aggregated.                  *)
process_commit(w) ==
    /\ pc[w] = "cr_commit"
    /\ LET called == Append(log[w], Call("commit", prev[w], cur[w], err[w])) IN
        IF commit(prev[w], cur[w]) = 0
        THEN /\ log' = [log EXCEPT ![w] = called]
             /\ UNCHANGED err
        ELSE \E werr \in {{}} \cup {{f} : f \in faults \cap {"commit"}} :
             /\ log' = [log EXCEPT ![w] = Append(called, Call("write", Nil, cur[w], werr))]
             /\ err' = [err EXCEPT ![w] = NewAggregate(@, werr)]
    /\ pc' = [pc EXCEPT ![w] = "followup"]
    /\ UNCHANGED <<bindVars, extVars>>
    /\ UNCHANGED <<options, faults, numRequeues, queue, indexer, wkey, prev, cur, nEvents,
                   owed, enqDuring, hist, dropped>>

(* processNextWorkItem, lines 194-204: the follow-up of process's result.  *)
(* A queue that is shut down counts the failure but accepts no key.        *)
processNextWorkItem_FollowUp(w) ==
    /\ pc[w] = "followup"
    /\ LET k == wkey[w]
           op == FollowUp(err[w], requeue[w])
       IN  /\ op = "AddRateLimited" => NumRequeues(queue, k) < MaxRetries
           /\ queue' =
                 IF op = "AddRateLimited"
                 THEN IF shuttingDown THEN [queue EXCEPT !.failures[k] = @ + 1]
                      ELSE AddRateLimited(queue, k)
                 ELSE IF op = "Add"
                 THEN IF shuttingDown THEN queue ELSE Add(queue, k)
                 ELSE Forget(queue, k)
           /\ log' = [log EXCEPT ![w] = Append(@, Call(op, Nil, Nil, err[w]))]
    /\ pc' = [pc EXCEPT ![w] = "done"]
    /\ UNCHANGED <<bindVars, extVars>>
    /\ UNCHANGED <<options, faults, numRequeues, indexer, wkey, prev, cur, err, nEvents,
                   owed, enqDuring, hist, dropped>>

(* processNextWorkItem returns: the deferred c.queue.Done(key) runs.       *)
processNextWorkItem_Done(w) == processNextItem_Done(w)

(* The delayed add of AddRateLimited, which a queue that is shut down no   *)
(* longer performs.                                                        *)
DelayedAdd(k) == ~shuttingDown /\ TimerFire(k)

(* The context is cancelled: Start returns from <-ctx.Done() and its       *)
(* deferred c.queue.ShutDown() runs.                                       *)
Cancel ==
    /\ ctx = "running"
    /\ ctx' = "cancelled"
    /\ shuttingDown' = TRUE
    /\ UNCHANGED <<ctlVars, bindVars, resyncVars, rlVars, ctl, curRef, gotAfterCancel,
                   requeue, crdPending, note, trig, startTrig>>

(* Either controller, started with one ClusterRole / object in the store,  *)
(* whose collaborators can fail.                                           *)
InitControllers ==
    /\ options = [NumRequeues |-> 0, ResyncPeriod |-> 0]
    /\ ctl \in {"generic", "clusterrole"}
    /\ faults = IF ctl = "generic" THEN {"Reconcile"}
                ELSE {"reconcile", "commit"}
    /\ indexer = [k \in Keys |-> IF k \in WatchedKeys THEN 1 ELSE Nil]
    /\ exportRef = [k \in Keys |-> "root:org|e1"]
    /\ localExports = {"root:org|e1"}
    /\ remoteExports = {"root:org|e2"}
    /\ InitController

NextControllers ==
    \/ ctx = "running" /\ ctl = "generic" /\
           \E k \in WatchedKeys : \E v \in Objs \cup {Nil} : Notify(k, v)
    \/ ctx = "running" /\ ctl = "clusterrole" /\
           \E k \in WatchedKeys : \E v \in Objs \cup {Nil} : NotifyClusterRole(k, v)
    \/ ctx = "running" /\ \E k \in MalformedKeys : EnqueueMalformed(k)
    \/ \E k \in Keys : DelayedAdd(k)
    \/ Cancel
    \/ ctl = "generic" /\ ctx = "running" /\ \E w \in Workers : processNextItem_Get(w)
    \/ ctl = "generic" /\ \E w \in Workers : Until_Stop(w)
    \/ ctl = "generic" /\ \E w \in Workers : processNextItem_InvalidKey(w)
    \/ ctl = "generic" /\ \E w \in Workers : processNextItem_GetByKey(w)
    \/ ctl = "generic" /\ \E w \in Workers : processNextItem_Reconcile(w)
    \/ ctl = "generic" /\ \E w \in Workers : processNextItem_PostReconcile(w)
    \/ ctl = "generic" /\ \E w \in Workers : processNextItem_handleError(w)
    \/ ctl = "generic" /\ \E w \in Workers : processNextItem_Done(w)
    \/ ctl = "clusterrole" /\ \E w \in Workers : processNextWorkItem_Get(w)
    \/ ctl = "clusterrole" /\ \E w \in Workers : processNextWorkItem_Quit(w)
    \/ ctl = "clusterrole" /\ \E w \in Workers : process_Get(w)
    \/ ctl = "clusterrole" /\ \E w \in Workers : process_reconcile(w)
    \/ ctl = "clusterrole" /\ \E w \in Workers : process_commit(w)
    \/ ctl = "clusterrole" /\ \E w \in Workers : processNextWorkItem_FollowUp(w)
    \/ ctl = "clusterrole" /\ \E w \in Workers : processNextWorkItem_Done(w)

SpecControllers == InitControllers /\ [][NextControllers]_vars

(* ---------------- ClusterRoleBinding notifications -------------------- *)
RbacGroupName == "rbac.authorization.k8s.io"

(* What enqueueClusterRoleBinding reads of a ClusterRoleBinding: its       *)
(* logical cluster and its roleRef.                                        *)
ClusterRoleBinding(c, k, g, n) ==
    [cluster |-> c, kind |-> k, apiGroup |-> g, name |-> n]

(* Bindings to each ClusterRole of root:org, to a Role, to a ClusterRole   *)
(* of another API group, and one in another logical cluster.               *)
ClusterRoleBindings ==
    {ClusterRoleBinding("root:org", "ClusterRole", RbacGroupName, "b1"),
     ClusterRoleBinding("root:org", "ClusterRole", RbacGroupName, "b2"),
     ClusterRoleBinding("root:org", "Role", RbacGroupName, "b1"),
     ClusterRoleBinding("root:org", "ClusterRole", "example.io", "b1"),
     ClusterRoleBinding("root:other", "ClusterRole", RbacGroupName, "b1")}

(* What the informer hands to the handler: the binding, or on a delete     *)
(* possibly a cache.DeletedFinalStateUnknown holding it.                   *)
Delivered(kind) ==
    {[tombstone |-> t, obj |-> crb] :
        t \in (IF kind = "delete" THEN BOOLEAN ELSE {FALSE}),
        crb \in ClusterRoleBindings}

(* if tombstone, ok := obj.(cache.DeletedFinalStateUnknown); ok            *)
(*     { obj = tombstone.Obj }                                             *)
UnwrapTombstone(d) == d.obj

(* Mutant: the API group of the roleRef is not looked at.                  *)
RoleRefAnyGroup(crb) == crb.kind = "ClusterRole"

(* The negation of the early return on RoleRef.Kind / RoleRef.APIGroup.    *)
RoleRefIsClusterRole(crb) ==
    crb.kind = "ClusterRole" /\ crb.apiGroup = RbacGroupName

(* kcpcache.DeletionHandlingMetaClusterNamespaceKeyFunc of a cluster-      *)
(* scoped object.                                                          *)
ClusterRoleKey(cluster, name) == cluster \o "|" \o name

(* c.clusterRoleLister.Cluster(cluster).Get(name)                          *)
ClusterRoleListerGet(ix, cluster, name) ==
    LET k == ClusterRoleKey(cluster, name) IN
    IF k \in DOMAIN ix /\ ix[k] # Nil THEN [found |-> TRUE, key |-> k]
    ELSE [found |-> FALSE, key |-> NoKey]

(* enqueueClusterRoleBinding: the keys it hands to enqueueClusterRole.     *)
enqueueClusterRoleBinding(ix, d) ==
    LET crb == UnwrapTombstone(d)
        cr == ClusterRoleListerGet(ix, crb.cluster, crb.name)
    IN  IF ~RoleRefIsClusterRole(crb) THEN <<>>
        ELSE IF ~cr.found THEN <<>>
        ELSE <<cr.key>>

(* A ClusterRoleBinding informer notification; the handler's input and     *)
(* effect are recorded in note.                                            *)
NotifyClusterRoleBinding(d, kind) ==
    /\ nEvents < MaxEvents
    /\ nEvents' = nEvents + 1
    /\ LET ks == enqueueClusterRoleBinding(indexer, d) IN
        /\ queue' = EnqueueEach(queue, ks)
        /\ Enqueued(ks)
    /\ note' = [op |-> "CRB", obj |-> d, kind |-> kind,
                q0 |-> queue, q1 |-> queue', ix |-> indexer]
    /\ UNCHANGED <<options, faults, numRequeues, indexer, pc, wkey, prev, cur, err, log>>
    /\ UNCHANGED <<bindVars, lifeVars, resyncVars, rlVars, curRef, gotAfterCancel,
                   requeue, crdPending, trig, startTrig>>

(* The ClusterRole controller with ClusterRole b1 in the store; reconcile  *)
(* and commit do not fail, so no key is retried.                           *)
InitRoleBindings ==
    /\ options = [NumRequeues |-> 0, ResyncPeriod |-> 0]
    /\ ctl = "clusterrole"
    /\ faults = {}
    /\ indexer = [k \in Keys |-> IF k \in WatchedKeys THEN 1 ELSE Nil]
    /\ exportRef = [k \in Keys |-> "root:org|e1"]
    /\ localExports = {"root:org|e1"}
    /\ remoteExports = {"root:org|e2"}
    /\ InitController

NextRoleBindings ==
    \/ \E k \in WatchedKeys : \E v \in Objs \cup {Nil} : NotifyClusterRole(k, v)
    \/ \E kind \in {"add", "update", "delete"} : \E d \in Delivered(kind) :
           NotifyClusterRoleBinding(d, kind)
    \/ \E w \in Workers : processNextWorkItem_Get(w)
    \/ \E w \in Workers : process_Get(w)
    \/ \E w \in Workers : process_reconcile(w)
    \/ \E w \in Workers : process_commit(w)
    \/ \E w \in Workers : processNextWorkItem_FollowUp(w)
    \/ \E w \in Workers : processNextWorkItem_Done(w)

(* The ClusterRole controller under ClusterRole and ClusterRoleBinding     *)
(* notifications.                                                          *)
SpecRoleBindings == InitRoleBindings /\ [][NextRoleBindings]_vars

(* ------------------------------- resync ------------------------------- *)
(* Options.ResyncPeriod: left unset (as the APIBinding controller does) or *)
(* set to some period.                                                     *)
ResyncPeriods == {0, 1}

(* informer.AddEventHandlerWithResyncPeriod(handlers, options.ResyncPeriod):*)
(* the informer redelivers the stored objects as updates to a handler      *)
(* registered with a non-zero period, and never to one registered with 0.  *)
HandlerResyncs(period) == period > 0

(* The store takes a new value for the object but the change event never   *)
(* reaches the handler.                                                    *)
MissedChange(k, v) ==
    /\ missed[k] = Nil
    /\ indexer[k] # Nil /\ v # indexer[k]
    /\ indexer' = [indexer EXCEPT ![k] = v]
    /\ missed' = [missed EXCEPT ![k] = v]
    /\ UNCHANGED <<options, faults, numRequeues, queue, pc, wkey, prev, cur, err, log,
                   nEvents, owed, enqDuring, hist, dropped>>
    /\ UNCHANGED <<bindVars, lifeVars, rlVars, resyncPeriod, curRef, gotAfterCancel,
                   requeue, crdPending, note, trig, startTrig>>

(* A resync: UpdateFunc is called with the stored object and enqueues it.  *)
Resync(k) ==
    /\ HandlerResyncs(resyncPeriod)
    /\ indexer[k] # Nil
    /\ queue' = Enqueue(queue, k)
    /\ Enqueued(<<k>>)
    /\ UNCHANGED <<bindVars, extVars>>
    /\ UNCHANGED <<options, faults, numRequeues, indexer, pc, wkey, prev, cur, err, log,
                   nEvents>>

(* A controller built by New with ResyncPeriod set or unset, its objects   *)
(* in the store and reconciled; store and reconciler do not fail.          *)
InitResync ==
    /\ options \in [NumRequeues : {0}, ResyncPeriod : ResyncPeriods]
    /\ ctl = "generic"
    /\ faults = {}
    /\ indexer = [k \in Keys |-> 1]
    /\ exportRef = [k \in Keys |-> "root:org|e1"]
    /\ localExports = {"root:org|e1"}
    /\ remoteExports = {"root:org|e2"}
    /\ InitController

NextResync ==
    \/ \E k \in Keys : \E v \in Objs : MissedChange(k, v)
    \/ \E k \in Keys : Resync(k)
    \/ \E w \in Workers : processNextItem_Get(w)
    \/ \E w \in Workers : processNextItem_GetByKey(w)
    \/ \E w \in Workers : processNextItem_Reconcile(w)
    \/ \E w \in Workers : processNextItem_PostReconcile(w)
    \/ \E w \in Workers : processNextItem_Done(w)

(* Every worker runs and is scheduled fairly, and the informer's resync    *)
(* timer keeps firing for a handler that asked for resyncs.                *)
SpecResync ==
    /\ InitResync /\ [][NextResync]_vars
    /\ \A k \in Keys : WF_vars(Resync(k))
    /\ \A w \in Workers :
          /\ WF_vars(processNextItem_Get(w))
          /\ WF_vars(processNextItem_GetByKey(w))
          /\ WF_vars(processNextItem_Reconcile(w))
          /\ WF_vars(processNextItem_PostReconcile(w))
          /\ WF_vars(processNextItem_Done(w))

(* --------------------------- the rate limiter ------------------------- *)
(* workqueue.DefaultControllerRateLimiter(): the larger of a per-key       *)
(* exponential backoff and a token bucket shared by all keys.              *)
Min(a, b) == IF a < b THEN a ELSE b

Max(a, b) == IF a > b THEN a ELSE b

(* The per-key limiter: base * 2^failures, capped.                         *)
ItemExponentialDelay(f) == Min(BaseDelay * 2^f, MaxDelay)

(* The bucket limiter's reservation at time now: the bucket refills with   *)
(* the elapsed time up to its burst, one token is taken, and a bucket in   *)
(* debt makes the caller wait until the token is earned.                   *)
BucketReserve(b, now) ==
    LET filled == Min(BucketBurst, b.tokens + (now - b.last) * BucketQps)
        left == filled - 1
    IN  [bucket |-> [tokens |-> left, last |-> now],
         delay |-> IF left < 0 THEN (BucketQps - 1 - left) \div BucketQps ELSE 0]

(* The delay AddRateLimited applies to a key with f failures.              *)
When(f, b, now) == Max(ItemExponentialDelay(f), BucketReserve(b, now).delay)

(* The largest debt of the bucket that is followed.                        *)
MinTokens == 0 - (MaxDelay + 2)

(* handleError's c.queue.AddRateLimited(key) for a failed key.             *)
RateLimited(k) ==
    /\ NumRequeues(queue, k) < MaxFailures
    /\ bucket.tokens > MinTokens
    /\ queue' = AddRateLimited(queue, k)
    /\ bucket' = BucketReserve(bucket, clock).bucket
    /\ prevDelay' = [prevDelay EXCEPT ![k] = lastDelay[k]]
    /\ lastDelay' = [lastDelay EXCEPT ![k] = When(NumRequeues(queue, k), bucket, clock)]
    /\ UNCHANGED <<options, faults, numRequeues, indexer, pc, wkey, prev, cur, err, log,
                   nEvents, owed, enqDuring, hist, dropped>>
    /\ UNCHANGED <<bindVars, lifeVars, resyncVars, clock, curRef, gotAfterCancel,
                   requeue, crdPending, note, trig, startTrig>>

(* handleError's c.queue.Forget(key): the key's backoff starts afresh.     *)
Forgotten(k) ==
    /\ NumRequeues(queue, k) > 0
    /\ queue' = Forget(queue, k)
    /\ prevDelay' = [prevDelay EXCEPT ![k] = 0]
    /\ lastDelay' = [lastDelay EXCEPT ![k] = 0]
    /\ UNCHANGED <<options, faults, numRequeues, indexer, pc, wkey, prev, cur, err, log,
                   nEvents, owed, enqDuring, hist, dropped>>
    /\ UNCHANGED <<bindVars, lifeVars, resyncVars, clock, bucket, curRef, gotAfterCancel,
                   requeue, crdPending, note, trig, startTrig>>

(* Time passes.                                                            *)
Tick ==
    /\ clock < MaxClock
    /\ clock' = clock + 1
    /\ UNCHANGED <<ctlVars, bindVars, lifeVars, resyncVars, bucket, lastDelay, prevDelay,
                   curRef, gotAfterCancel, requeue, crdPending, note, trig, startTrig>>

NextRateLimiter ==
    \/ \E k \in Keys : RateLimited(k)
    \/ \E k \in Keys : Forgotten(k)
    \/ Tick

(* The queue's rate limiter as handleError drives it for failing keys.     *)
SpecRateLimiter == Init /\ [][NextRateLimiter]_vars

(* ============================== claims ================================ *)
QueuedCount(k) == Count(queue.queue, k)

(* The pass of worker w got past the store lookup without an error.        *)
LookedUp(w) == Len(log[w]) >= 1 /\ log[w][1].err = {}

(* The pass of worker w has run everything but the deferred Done.          *)
PassOver(w) == pc[w] \in {"handle", "done"}

HandleOps == {"AddRateLimited", "Forget+HandleError"}

(* C1: no key is being processed (between a worker's Get and its Done) by  *)
(* two workers at the same time.                                           *)
C1_OneWorkerPerKey ==
    \A w1, w2 \in Workers :
        (w1 # w2 /\ pc[w1] # "idle" /\ pc[w2] # "idle") => wkey[w1] # wkey[w2]

(* A key is held by one worker, was enqueued again meanwhile, and another  *)
(* worker is idle with nothing to take.                                    *)
C1_Witness ==
    \E k \in Keys : \E w \in Workers :
        /\ InFlight(k) /\ k \in queue.dirty
        /\ pc[w] = "idle" /\ queue.queue = <<>>

(* C2: a key enqueued two or more times while a worker processes it is     *)
(* held back until Done and is then in the queue exactly once.             *)
C2_RequeuedExactlyOnce ==
    \A k \in Keys :
        enqDuring[k] >= 2 =>
            IF InFlight(k)
            THEN QueuedCount(k) = 0 /\ k \in queue.dirty
            ELSE QueuedCount(k) = 1

C2_Witness ==
    \E k \in Keys : enqDuring[k] >= 2 /\ ~InFlight(k) /\ QueuedCount(k) = 1

(* C3: a key enqueued once whose Reconcile fails on every pass is retried  *)
(* with AddRateLimited exactly numRequeues times; the next failure forgets *)
(* it, reports it once and leaves it out of the queue.                     *)
C3_BoundedRetry ==
    \A k \in Keys :
        (hist[k].clean /\ hist[k].enq = 1) =>
            /\ hist[k].arl <= numRequeues
            /\ hist[k].reports <= 1
            /\ hist[k].recFail <= numRequeues + 1
            /\ hist[k].reports = 1 => hist[k].arl = numRequeues
            /\ ~InFlight(k) => hist[k].arl + hist[k].reports = hist[k].recFail
            /\ (hist[k].reports = 1 /\ ~InFlight(k)) =>
                   /\ NumRequeues(queue, k) = 0
                   /\ QueuedCount(k) = 0
                   /\ k \notin queue.dirty \cup queue.waiting

C3_Witness ==
    \E k \in Keys :
        /\ hist[k].clean /\ hist[k].enq = 1
        /\ hist[k].reports = 1 /\ hist[k].arl = numRequeues
        /\ ~InFlight(k)

(* C4: the retry bound is Options.NumRequeues when that is non-zero and 5  *)
(* otherwise: an always-failing key is retried with AddRateLimited at most *)
(* that many times and is reported only after exactly that many.           *)
ConfiguredBound ==
    IF options.NumRequeues # 0 THEN options.NumRequeues ELSE DefaultNumRequeues

C4_ConfiguredRetryBound ==
    \A k \in Keys :
        (hist[k].clean /\ hist[k].enq = 1) =>
            /\ hist[k].arl <= ConfiguredBound
            /\ hist[k].reports = 1 => hist[k].arl = ConfiguredBound

(* C5: once a key was dropped by handleError (Forget and error report),    *)
(* with no enqueue event outstanding or arriving later, no worker          *)
(* processes it again.                                                     *)
C5_DroppedStaysDropped ==
    \A k \in Keys :
        dropped[k] => \A w \in Workers : wkey[w] = k => pc[w] = "done"

(* C6: when the store lookup succeeded, the pass called Reconcile once on  *)
(* the copy and then PostReconcile once with prev, cur and the error       *)
(* Reconcile returned.                                                     *)
C6_ReconcileThenPostReconcile ==
    \A w \in Workers :
        (PassOver(w) /\ LookedUp(w)) =>
            /\ Len(log[w]) >= 4
            /\ log[w][2].op = "Reconcile"
            /\ log[w][2].cur = DeepCopyObject(prev[w])
            /\ log[w][3] = Call("PostReconcile", prev[w], cur[w], log[w][2].err)
            /\ Cardinality({i \in DOMAIN log[w] : log[w][i].op = "Reconcile"}) = 1
            /\ Cardinality({i \in DOMAIN log[w] : log[w][i].op = "PostReconcile"}) = 1

C6_Witness ==
    \E w \in Workers :
        /\ pc[w] = "done" /\ LookedUp(w) /\ Len(log[w]) >= 4
        /\ log[w][2].err # {}
        /\ prev[w] # cur[w]

(* C7: when Reconcile and PostReconcile both fail, the error handed to     *)
(* handleError carries both causes.                                        *)
C7_BothCausesCarried ==
    \A w \in Workers :
        (pc[w] = "handle" /\ LookedUp(w) /\ Len(log[w]) >= 4
            /\ log[w][2].err # {} /\ log[w][4].err # {}) =>
                {"Reconcile", "PostReconcile"} \subseteq err[w]

(* C8: when the key's object is gone from the store, Reconcile and then    *)
(* PostReconcile are still called, with the zero object as prev and cur,   *)
(* and an error from them goes through handleError.                        *)
C8_DeletedStillReconciled ==
    \A w \in Workers :
        (PassOver(w) /\ LookedUp(w) /\ log[w][1].prev = Nil) =>
            /\ Len(log[w]) >= 4
            /\ log[w][2].op = "Reconcile" /\ log[w][2].cur = Nil
            /\ log[w][3] = Call("PostReconcile", Nil, Nil, log[w][2].err)
            /\ (pc[w] = "done" /\ err[w] # {}) =>
                   Len(log[w]) = 5 /\ log[w][5].op \in HandleOps

C8_Witness ==
    \E w \in Workers :
        /\ pc[w] = "done" /\ LookedUp(w) /\ log[w][1].prev = Nil
        /\ err[w] # {}
        /\ Len(log[w]) = 5 /\ log[w][5].op = "AddRateLimited"

(* C9: after notifications of an APIExport, every APIBinding the index     *)
(* lists for it has its key pending: in the queue exactly once, or held    *)
(* back once while a worker processes the key; never in the queue twice.   *)
C9_FanOutOncePerBinding ==
    \A b \in Keys :
        expectExport[b] >= 1 =>
            /\ b \in queue.dirty
            /\ IF InFlight(b) THEN QueuedCount(b) = 0 ELSE QueuedCount(b) = 1

(* Two bindings of one export, the export notified twice before a worker   *)
(* dequeued either key: each key is in the queue once.                     *)
C9_Witness ==
    \E b1, b2 \in Keys :
        /\ b1 # b2 /\ exportRef[b1] = exportRef[b2]
        /\ expectExport[b1] >= 2 /\ expectExport[b2] >= 2
        /\ QueuedCount(b1) = 1 /\ QueuedCount(b2) = 1
        /\ Len(queue.queue) = 2

(* C10: after a notification of an APIResourceSchema (directly or through  *)
(* a bound CRD naming it), every APIBinding of an export that lists the    *)
(* schema, in the local or the remote-shard index, has its key pending.    *)
C10_SchemaReachesEveryBinding == expectSchema \subseteq queue.dirty

(* C11: the DeleteFunc of a bound CRD records the CRD's name in the        *)
(* tombstone tracker before it enqueues any dependent APIBinding: a key    *)
(* enqueued by a deletion, and every worker that dequeued such a key,      *)
(* finds the name in the tracker.                                          *)
C11_TrackedBeforeEnqueue ==
    /\ \A k \in AllKeys : trig[k] \subseteq deletedCRDTracker
    /\ \A w \in Workers : pc[w] # "idle" => startTrig[w] \subseteq deletedCRDTracker

(* A worker is about to reconcile a binding enqueued by a CRD deletion.    *)
C11_Witness ==
    \E w \in Workers : pc[w] = "reconcile" /\ startTrig[w] # {}

OpsAt(w, ops) == {i \in DOMAIN log[w] : log[w][i].op \in ops}

(* The pass of worker w read its object from the store without an error.   *)
ReadOk(w) ==
    Len(log[w]) >= 1 /\ log[w][1].op \in {"GetByKey", "Get"} /\ log[w][1].err = {}

(* C12: commit(old, new) writes nothing when old and new are structurally  *)
(* equal and writes exactly once when they differ; a pass of the           *)
(* ClusterRole controller calls it once with old and the reconciled copy.  *)
C12_IdempotentCommit ==
    \A w \in Workers :
        /\ OpsAt(w, {"commit"}) = {} => OpsAt(w, {"write"}) = {}
        /\ \A i \in OpsAt(w, {"commit"}) :
              /\ Cardinality(OpsAt(w, {"write"})) =
                     (IF log[w][i].prev = log[w][i].cur THEN 0 ELSE 1)
              /\ Cardinality(OpsAt(w, {"commit"})) = 1

(* A pass in which reconcile changed the object ends with one write.       *)
C12_Witness ==
    \E w \in Workers :
        /\ pc[w] = "done" /\ OpsAt(w, {"commit"}) # {}
        /\ prev[w] # cur[w]
        /\ Cardinality(OpsAt(w, {"write"})) = 1

(* C14: after the context is cancelled no worker dequeues a further key.   *)
C14_NoDequeueAfterCancel == \A w \in Workers : ~gotAfterCancel[w]

(* C15: during a pass prev stays what was read from the store: Reconcile   *)
(* gets a copy equal to it, and PostReconcile (generic controller) or      *)
(* commit (ClusterRole controller) gets prev with its dequeue-time value.  *)
C15_PrevNeverMutated ==
    \A w \in Workers :
        ReadOk(w) =>
            /\ prev[w] = log[w][1].prev
            /\ \A i \in OpsAt(w, {"Reconcile", "reconcile"}) :
                   log[w][i].cur = log[w][1].prev
            /\ \A i \in OpsAt(w, {"PostReconcile", "commit"}) :
                   log[w][i].prev = log[w][1].prev

(* Reconcile changed cur and PostReconcile / commit was called.            *)
C15_Witness ==
    \E w \in Workers :
        /\ ReadOk(w) /\ OpsAt(w, {"PostReconcile", "commit"}) # {}
        /\ cur[w] # prev[w] /\ prev[w] # Nil

(* C17: a dequeued key that does not split is dropped at once: nothing is  *)
(* called for it but (in the ClusterRole controller) Forget, it is never   *)
(* scheduled for a retry or added again by the worker, and Done releases   *)
(* its in-flight marker.                                                   *)
C17_MalformedKeyDropped ==
    /\ \A w \in Workers :
          wkey[w] \in MalformedKeys =>
              \A i \in DOMAIN log[w] : log[w][i].op \in {"SplitKey", "Forget"}
    /\ \A k \in MalformedKeys :
          /\ k \notin queue.waiting
          /\ NumRequeues(queue, k) = 0
          /\ k \in queue.processing => InFlight(k)
          /\ (owed[k] = 0 /\ ~InFlight(k)) =>
                 QueuedCount(k) = 0 /\ k \notin queue.dirty

(* A malformed key went through a worker and was released, with nothing    *)
(* left of it in the queue.                                                *)
C17_Witness ==
    \E k \in MalformedKeys :
        /\ hist[k].enq = 1 /\ owed[k] = 0 /\ ~InFlight(k)
        /\ k \notin queue.processing /\ QueuedCount(k) = 0

(* C19: in the ClusterRole controller every pass ends with exactly one     *)
(* follow-up: AddRateLimited iff process returned an error, Add iff it     *)
(* returned none but asked for a requeue, Forget otherwise; and Done       *)
(* releases the key, so only keys held by a worker are marked in-flight.   *)
C19_ExactlyOneFollowUp ==
    ctl = "clusterrole" =>
        /\ \A k \in queue.processing : InFlight(k)
        /\ \A w \in Workers :
              LET f == OpsAt(w, {"AddRateLimited", "Add", "Forget"}) IN
              /\ pc[w] # "done" => f = {}
              /\ pc[w] = "done" =>
                    /\ Cardinality(f) = 1
                    /\ \A i \in f :
                          /\ (log[w][i].op = "AddRateLimited") = (err[w] # {})
                          /\ (log[w][i].op = "Add") = (err[w] = {} /\ requeue[w])
                          /\ (log[w][i].op = "Forget") = (err[w] = {} /\ ~requeue[w])

(* process failed and asked for a requeue: AddRateLimited, not Add.        *)
C19_Witness ==
    /\ ctl = "clusterrole"
    /\ \E w \in Workers :
          /\ pc[w] = "done" /\ err[w] # {} /\ requeue[w]
          /\ OpsAt(w, {"AddRateLimited"}) # {}

(* C20: in the ClusterRole controller a key whose ClusterRole is gone from *)
(* the store is a no-op: neither reconcile nor commit is called, no error  *)
(* is returned, the only follow-up is Forget, and the failure counter is 0.*)
C20_NotFoundIsNoOp ==
    ctl = "clusterrole" =>
        \A w \in Workers :
            (/\ pc[w] \in {"followup", "done"} /\ Len(log[w]) >= 1
             /\ log[w][1].op = "Get" /\ log[w][1].prev = Nil
             /\ "Get" \notin log[w][1].err) =>
                /\ err[w] = {}
                /\ ~requeue[w]
                /\ OpsAt(w, {"reconcile", "commit", "write", "Add", "AddRateLimited"}) = {}
                /\ pc[w] = "done" =>
                      /\ log[w] = <<Call("Get", Nil, Nil, {}), Call("Forget", Nil, Nil, {})>>
                      /\ NumRequeues(queue, wkey[w]) = 0

(* A key that had failed before is dequeued after its ClusterRole was      *)
(* deleted and is forgotten.                                               *)
C20_Witness ==
    /\ ctl = "clusterrole"
    /\ \E w \in Workers :
          /\ pc[w] = "done" /\ wkey[w] \in Keys
          /\ log[w] = <<Call("Get", Nil, Nil, {}), Call("Forget", Nil, Nil, {})>>
          /\ wkey[w] \in queue.waiting

(* C16: when a pass of the generic controller ends with neither Reconcile  *)
(* nor PostReconcile returning an error, the key's failure counter is 0.   *)
C16_ForgottenOnSuccess ==
    \A w \in Workers :
        (/\ ctl = "generic" /\ pc[w] = "done" /\ LookedUp(w)
         /\ OpsAt(w, {"PostReconcile returned"}) # {} /\ err[w] = {}) =>
            NumRequeues(queue, wkey[w]) = 0

(* A worker has reconciled key k with the value of the missed change.      *)
ReconciledMissed(k) ==
    \E w \in Workers : wkey[w] = k /\ pc[w] = "post" /\ prev[w] = missed[k]

(* C13: when a change event of an object was missed, the controller built  *)
(* by New, with ResyncPeriod set or unset, eventually reconciles the       *)
(* object again through the store's resync, with no other trigger.         *)
C13_ResyncConverges ==
    \A k \in Keys : (missed[k] # Nil) ~> ReconciledMissed(k)

(* C18: for each key, the delay of an AddRateLimited is not below the      *)
(* delay of the key's previous AddRateLimited (no Forget in between) and   *)
(* not above the backoff cap, whatever happens to other keys.              *)
C18_BackoffMonotoneAndCapped ==
    \A k \in Keys : prevDelay[k] <= lastDelay[k] /\ lastDelay[k] <= MaxDelay

(* C21: in the ClusterRole controller a pass whose object exists calls     *)
(* commit(old, cur) exactly once, also after reconcile failed; the error   *)
(* process returns carries the cause of reconcile and the cause of commit; *)
(* a failed pass is followed by exactly one AddRateLimited and the         *)
(* committer writes at most once.                                          *)
C21_CommitOnceAndAggregate ==
    ctl = "clusterrole" =>
        \A w \in Workers :
            (/\ pc[w] \in {"followup", "done"} /\ ReadOk(w)
             /\ log[w][1].op = "Get" /\ log[w][1].prev # Nil) =>
                /\ Cardinality(OpsAt(w, {"reconcile"})) = 1
                /\ Cardinality(OpsAt(w, {"commit"})) = 1
                /\ Cardinality(OpsAt(w, {"write"})) <= 1
                /\ \A i \in OpsAt(w, {"reconcile", "write"}) :
                       log[w][i].err \subseteq err[w]
                /\ \A i \in OpsAt(w, {"commit"}) :
                       /\ log[w][i].prev = log[w][1].prev
                       /\ \A j \in OpsAt(w, {"reconcile"}) : j < i
                /\ (pc[w] = "done" /\ err[w] # {}) =>
                       /\ Cardinality(OpsAt(w, {"AddRateLimited"})) = 1
                       /\ OpsAt(w, {"Add", "Forget"}) = {}

(* reconcile and the write both failed; the key was re-queued with         *)
(* AddRateLimited.                                                         *)
C21_Witness ==
    /\ ctl = "clusterrole"
    /\ \E w \in Workers :
          /\ pc[w] = "done"
          /\ err[w] = {"reconcile", "commit"}
          /\ OpsAt(w, {"AddRateLimited"}) # {}

(* C22: in the ClusterRole controller a key whose processing keeps failing *)
(* is retried with backoff only up to the retry bound and then dropped, so *)
(* the queue never records more failures for a key than the bound.         *)
C22_RetriesBounded ==
    ctl = "clusterrole" =>
        \A k \in AllKeys : NumRequeues(queue, k) <= DefaultNumRequeues

(* Some step of worker w's pass (lookup, Reconcile, PostReconcile)         *)
(* returned an error.                                                      *)
StepFailed(w) ==
    \E i \in OpsAt(w, {"GetByKey", "Reconcile", "PostReconcile returned"}) :
        log[w][i].err # {}

(* C23: in the generic controller handleError runs exactly once in a pass  *)
(* if the lookup, Reconcile or PostReconcile returned an error and not at  *)
(* all when all three succeeded; after a failed lookup neither Reconcile   *)
(* nor PostReconcile is called and handleError runs.                       *)
C23_HandleErrorIffFailed ==
    ctl = "generic" =>
        \A w \in Workers :
            /\ Cardinality(OpsAt(w, HandleOps)) <= 1
            /\ (OpsAt(w, HandleOps) # {}) => StepFailed(w)
            /\ (pc[w] = "done" /\ OpsAt(w, {"GetByKey"}) # {}) =>
                   (StepFailed(w) <=> Cardinality(OpsAt(w, HandleOps)) = 1)
            /\ (pc[w] = "done" /\ OpsAt(w, {"GetByKey"}) # {} /\ ~LookedUp(w)) =>
                   /\ OpsAt(w, {"Reconcile", "PostReconcile"}) = {}
                   /\ Cardinality(OpsAt(w, HandleOps)) = 1

(* Reconcile failed, PostReconcile succeeded, and handleError ran.         *)
C23_Witness ==
    /\ ctl = "generic"
    /\ \E w \in Workers :
          /\ pc[w] = "done"
          /\ \E i \in OpsAt(w, {"Reconcile"}) : log[w][i].err # {}
          /\ \E i \in OpsAt(w, {"PostReconcile returned"}) : log[w][i].err = {}
          /\ Cardinality(OpsAt(w, HandleOps)) = 1

(* A failed lookup went straight to handleError.                           *)
C23_WitnessLookup ==
    \E w \in Workers :
        /\ ctl = "generic" /\ pc[w] = "done"
        /\ OpsAt(w, {"GetByKey"}) # {} /\ ~LookedUp(w)
        /\ OpsAt(w, HandleOps) # {}

(* C24: a CRD notification (add, update, delete) for a CRD outside the     *)
(* system:bound-crds workspace changes neither the work queue nor the      *)
(* tombstone tracker; one for a CRD inside it that lacks the schema-cluster *)
(* or schema-name annotation, or whose APIResourceSchema cannot be         *)
(* fetched, leaves the work queue unchanged.                               *)
C24_IrrelevantCRDIgnored ==
    note # NoCall /\ note.op = "CRD" =>
        LET crd == note.obj IN
        /\ crd.cluster # ShadowWorkspaceName =>
               note.q1 = note.q0 /\ note.t1 = note.t0
        /\ (\/ crd.schemaCluster = "" \/ crd.schemaName = ""
            \/ ~getAPIResourceSchema(crd.schemaCluster, crd.schemaName).found) =>
               note.q1 = note.q0

(* A CRD outside the workspace was deleted; its annotations name a schema  *)
(* that can be fetched and has dependent bindings, none of them queued.    *)
C24_Witness ==
    /\ note # NoCall /\ note.op = "CRD" /\ note.kind = "delete"
    /\ note.obj.cluster # ShadowWorkspaceName
    /\ ReachesSchema(note.obj)
    /\ DependentsOfSchema(<<note.obj.schemaCluster, note.obj.schemaName>>) # {}
    /\ note.q0.dirty = {}

(* A CRD inside the workspace without the schema-name annotation was       *)
(* delivered while no key was queued.                                      *)
C24_WitnessNoAnnotation ==
    /\ note # NoCall /\ note.op = "CRD"
    /\ note.obj.cluster = ShadowWorkspaceName
    /\ note.obj.schemaName = ""
    /\ note.q0.dirty = {}

(* C25: a ClusterRoleBinding notification (add, update, delete, also a     *)
(* delete delivered as a tombstone) enqueues at most one key, the key of   *)
(* the ClusterRole its roleRef names in the binding's own logical cluster, *)
(* and only when the roleRef has kind ClusterRole in the rbac API group    *)
(* and that ClusterRole is in the lister; otherwise the queue is           *)
(* unchanged.                                                              *)
C25_BindingEnqueuesItsRole ==
    note # NoCall /\ note.op = "CRB" =>
        LET crb == note.obj.obj
            key == ClusterRoleKey(crb.cluster, crb.name)
            present == key \in DOMAIN note.ix /\ note.ix[key] # Nil
        IN  IF /\ crb.kind = "ClusterRole" /\ crb.apiGroup = RbacGroupName
               /\ present
            THEN note.q1 \in {note.q0, Add(note.q0, key)}
            ELSE note.q1 = note.q0

(* A tombstone for a deleted binding put its ClusterRole's key into the    *)
(* queue.                                                                  *)
C25_Witness ==
    /\ note # NoCall /\ note.op = "CRB"
    /\ note.kind = "delete" /\ note.obj.tombstone
    /\ note.q1 # note.q0
    /\ ClusterRoleKey(note.obj.obj.cluster, note.obj.obj.name) \in note.q1.dirty

====
